---- MODULE Spec2Model ----
(***************************************************************************)
(* A model of census_query.py: the five library functions, the batched     *)
(* retrieval loop of retrieve_census_data, the per-year loop of            *)
(* compare_variable_across_years, and the pandas operations they rely on   *)
(* (header promotion, drop, outer merge on NAME, insert/pop, positional    *)
(* rename, to_numeric, str.replace/zfill).                                 *)
(*                                                                         *)
(* A DataFrame is a record [columns, rows]: columns is the sequence of     *)
(* column labels, rows the sequence of rows, each row a sequence of cells  *)
(* parallel to columns.  A cell is a record [t, v]: t = "name" for a       *)
(* region name (v = [prefix, digits]: a literal prefix followed by a       *)
(* sequence of decimal digits), "str" for a numeral the API delivers as a  *)
(* JSON string, "num" for a number, "na" for NaN.                          *)
(* Column labels are tuples: <<"NAME">>, <<"Year">>, <<"state">>,          *)
(* <<"county">>, <<"zip code tabulation area">>, <<"code", i>> for the     *)
(* i-th variable code of the catalogue, <<"desc", i>> for its description, *)
(* <<"val", y>> for variable_name + '_' + str(y) and <<"chg", a, b>> for   *)
(* a + '_to_' + b + '_chg'.                                                *)
(***************************************************************************)
EXTENDS Integers, Sequences, FiniteSets, TLC

\* ---------------------------------------------------------------- bounds
MaxBatches == 2     \* field lists of the main specification span up to this many batches
MaxFields == 91     \* longest field list of the batching specification
NumRegions == 2     \* regions the API knows for each geography
MaxYears == 3       \* longest year list
MaxTested == 2      \* longest code list handed to test_variables
MaxCatalog == 2     \* most rows of a variables.html table
FirstYear == 2015   \* earliest year of a year list

\* ------------------------------------------------------ program constants
BatchSize == 45     \* range(0, len(df_variable_list), 45)

UNBOUND == "UNBOUND"             \* a string local no statement has assigned yet
NoFrame == [unbound |-> TRUE]   \* a DataFrame local no statement has assigned yet
IsBound(x) == "unbound" \notin DOMAIN x
NA == [t |-> "na", v |-> 0]

NAME == <<"NAME">>
YearCol == <<"Year">>
StateCol == <<"state">>
CountyCol == <<"county">>
ZctaCol == <<"zip code tabulation area">>

Sources == {"acs5", "acs1", "census_redistricting", "census_sf1", "other"}
Regions == {"zip", "state", "county", "other"}

\* ------------------------------------------------------------- sequences
RECURSIVE Concat(_)
Concat(ss) == IF ss = <<>> THEN <<>> ELSE Head(ss) \o Concat(Tail(ss))

Reverse(s) == [i \in 1..Len(s) |-> s[Len(s) + 1 - i]]

Range(s) == {s[i] : i \in 1..Len(s)}

IndexOf(s, x) == CHOOSE i \in 1..Len(s) : s[i] = x /\ \A j \in 1..(i - 1) : s[j] # x

RemoveAt(s, i) == SubSeq(s, 1, i - 1) \o SubSeq(s, i + 1, Len(s))

InsertAt(s, i, x) == SubSeq(s, 1, i - 1) \o <<x>> \o SubSeq(s, i, Len(s))

\* --------------------------------------------------- source / geography
\* The four `if source == ...` statements: the local stays unassigned when
\* none matches.
SourceString(source) ==
    IF source = "acs5" THEN "/acs/acs5"
    ELSE IF source = "acs1" THEN "/acs/acs1"
    ELSE IF source = "census_redistricting" THEN "/dec/pl"
    ELSE IF source = "census_sf1" THEN "/dec/sf1"
    ELSE UNBOUND

\* The three `if region == ...` statements.
RegionString(region) ==
    IF region = "zip" THEN "&for=zip%20code%20tabulation%20area:*"
    ELSE IF region = "state" THEN "&for=state:*"
    ELSE IF region = "county" THEN "&for=county:*&in=state:*"
    ELSE UNBOUND

\* ------------------------------------------------------------ DataFrames
HasCol(df, c) == c \in Range(df.columns)

\* df[[c1, c2, ...]]
Project(df, cols) ==
    [columns |-> cols,
     rows |-> [k \in 1..Len(df.rows) |->
                 [j \in 1..Len(cols) |-> df.rows[k][IndexOf(df.columns, cols[j])]]]]

\* df.drop(c, axis = 1)
Drop(df, c) ==
    LET p == IndexOf(df.columns, c)
    IN  [columns |-> RemoveAt(df.columns, p),
         rows |-> [k \in 1..Len(df.rows) |-> RemoveAt(df.rows[k], p)]]

\* df.insert(loc, c, value): loc is the 0-based position of the new column.
InsertCol(df, loc, c, cells) ==
    [columns |-> InsertAt(df.columns, loc + 1, c),
     rows |-> [k \in 1..Len(df.rows) |-> InsertAt(df.rows[k], loc + 1, cells[k])]]

\* df.insert(loc, c, df.pop(c))
MoveCol(df, loc, c) ==
    LET p == IndexOf(df.columns, c)
    IN  InsertCol(Drop(df, c), loc, c, [k \in 1..Len(df.rows) |-> df.rows[k][p]])

\* df.columns = labels  (pandas raises ValueError on a length mismatch)
CanSetColumns(df, labels) == Len(labels) = Len(df.columns)

SetColumns(df, labels) == [df EXCEPT !.columns = labels]

\* Lexicographic order on the digit strings of names (the names of one
\* request share their literal prefix).
RECURSIVE LexLess(_, _)
LexLess(a, b) ==
    IF a = <<>> THEN b # <<>>
    ELSE IF b = <<>> THEN FALSE
    ELSE IF Head(a) = Head(b) THEN LexLess(Tail(a), Tail(b))
    ELSE Head(a) < Head(b)

RECURSIVE SortKeys(_)
SortKeys(S) ==
    IF S = {} THEN <<>>
    ELSE LET m == CHOOSE x \in S : \A y \in S \ {x} : LexLess(x.v.digits, y.v.digits)
         IN  <<m>> \o SortKeys(S \ {m})

KeyOf(df, row) == row[IndexOf(df.columns, NAME)]

Keys(df) == {KeyOf(df, df.rows[k]) : k \in 1..Len(df.rows)}

RowsWithKey(df, key) == SelectSeq(df.rows, LAMBDA row : KeyOf(df, row) = key)

NARow(n) == [j \in 1..n |-> NA]

\* The join of left and right on NAME for the given keys, in sorted order:
\* the key column once, then the other columns of left, then the other
\* columns of right; each left row paired with each right row of the same
\* key, and NaN where a side has no row for the key.
MergeOn(left, right, keyset) ==
    LET lp == IndexOf(left.columns, NAME)
        rp == IndexOf(right.columns, NAME)
        keys == SortKeys(keyset)
        lrest(row) == RemoveAt(row, lp)
        rrest(row) == RemoveAt(row, rp)
        put(key, lr, rr) == InsertAt(lr, lp, key) \o rr
        forKey(key) ==
            LET ls == RowsWithKey(left, key)
                rs == RowsWithKey(right, key)
            IN  IF ls = <<>>
                THEN [k \in 1..Len(rs) |->
                        put(key, NARow(Len(left.columns) - 1), rrest(rs[k]))]
                ELSE IF rs = <<>>
                THEN [k \in 1..Len(ls) |->
                        put(key, lrest(ls[k]), NARow(Len(right.columns) - 1))]
                ELSE Concat([a \in 1..Len(ls) |->
                        [b \in 1..Len(rs) |-> put(key, lrest(ls[a]), rrest(rs[b]))]])
    IN  [columns |-> left.columns \o RemoveAt(right.columns, rp),
         rows |-> Concat([k \in 1..Len(keys) |-> forKey(keys[k])])]

\* how = 'inner': only the keys both sides hold.
MergeOuter_inner(left, right) == MergeOn(left, right, Keys(left) \cap Keys(right))

\* left.merge(right, on = 'NAME', how = 'outer'): every key of either side.
MergeOuter(left, right) == MergeOn(left, right, Keys(left) \cup Keys(right))

\* pd.to_numeric on one cell: a numeral becomes a number, NaN stays NaN.
ToNumericCell(c) == IF c.t = "str" THEN [t |-> "num", v |-> c.v] ELSE c

CanToNumericCell(c) == c.t \in {"str", "num", "na"}

\* for i in range(1, len(df.columns)): df.iloc[:, i] = pd.to_numeric(df.iloc[:, i])
ToNumericFrom1(df) ==
    [df EXCEPT !.rows = [k \in 1..Len(df.rows) |->
        [j \in 1..Len(df.columns) |->
            IF j = 1 THEN df.rows[k][j] ELSE ToNumericCell(df.rows[k][j])]]]

CanToNumericFrom1(df) ==
    \A k \in 1..Len(df.rows) : \A j \in 2..Len(df.columns) :
        CanToNumericCell(df.rows[k][j])

\* str.zfill(width): zeros on the left until the string is width long.
RECURSIVE ZFill(_, _)
ZFill(n, width) ==
    IF Len(n.prefix) + Len(n.digits) >= width THEN n
    ELSE ZFill([n EXCEPT !.digits = <<0>> \o @], width)

\* str.replace('ZCTA5 ', '')
StripZcta(n) == IF n.prefix = "ZCTA5 " THEN [n EXCEPT !.prefix = ""] ELSE n

\* df['NAME'].str.replace('ZCTA5 ', '').str.zfill(5)
ZipName(c) == [c EXCEPT !.v = ZFill(StripZcta(c.v), 5)]

ZipNormalize(df) ==
    LET p == IndexOf(df.columns, NAME)
    IN  [df EXCEPT !.rows = [k \in 1..Len(df.rows) |->
            [df.rows[k] EXCEPT ![p] = ZipName(df.rows[k][p])]]]

\* ------------------------------------------------------------ the inputs
\* The catalogue order of the requested variables: the i-th entry has its
\* own code and its own description.
VariableList(n, descending) ==
    [k \in 1..n |->
        LET c == IF descending THEN n + 1 - k ELSE k
        IN  [Variable |-> <<"code", c>>, Description |-> <<"desc", c>>]]

Min(a, b) == IF a < b THEN a ELSE b

\* The (source, region) pairs the specifications draw: every source with a
\* fixed geography and every geography with a fixed source, the unsupported
\* values of both included.
InputPairs ==
    {p \in Sources \X Regions :
        p[1] \in {"acs5", "other"} \/ p[2] \in {"state", "other"}}

\* ---------------------------------------------------------- the Census API
RegionIds == 1..NumRegions

RegionName(region, r) ==
    [t |-> "name",
     v |-> IF region = "zip"
           THEN [prefix |-> "ZCTA5 ", digits |-> <<0, 0, 5, 0, r>>]
           ELSE [prefix |-> "Region ", digits |-> <<r>>]]

\* The numeral the API holds for a variable, a year and a region.
ApiValue(code, yr, r) ==
    [t |-> "str", v |-> 1000 * code[2] + 10 * (yr - FirstYear + 1) + r]

\* The geography identifiers the API adds to a row; variant distinguishes
\* two responses that disagree on them.
ApiGeoValue(col, r, variant) ==
    IF col = StateCol THEN [t |-> "str", v |-> 10 * r + variant]
    ELSE IF col = CountyCol THEN [t |-> "str", v |-> 100 * r + variant]
    ELSE [t |-> "str", v |-> 500 + r]

\* The geography columns a response may carry after the requested ones.
ApiExtras(region) ==
    IF region = "county" THEN {<<StateCol, CountyCol>>}
    ELSE IF region = "state" THEN {<<StateCol>>}
    ELSE {<<>>, <<ZctaCol>>, <<StateCol, ZctaCol>>}

RECURSIVE Ascending(_)
Ascending(S) ==
    IF S = {} THEN <<>>
    ELSE LET m == CHOOSE x \in S : \A y \in S : x <= y
         IN  <<m>> \o Ascending(S \ {m})

\* The JSON array of a response: the header row, then one row for each
\* region the response lists.  listed: the regions of the response;
\* permuted: the API lists the requested columns in another order than the
\* request; extras: the geography columns it appends.
ApiResponse(get, yr, region, listed, permuted, variant, extras) ==
    LET fields == IF permuted THEN Reverse(Tail(get)) ELSE Tail(get)
        rs == Ascending(listed)
        row(r) == <<RegionName(region, r)>>
                  \o [j \in 1..Len(fields) |-> ApiValue(fields[j], yr, r)]
                  \o [j \in 1..Len(extras) |-> ApiGeoValue(extras[j], r, variant)]
    IN  <<<<NAME>> \o fields \o extras>> \o [k \in 1..Len(rs) |-> row(rs[k])]

\* df.columns = df.iloc[0]; df = df.iloc[1:]
PromoteHeader(raw) == [columns |-> raw[1], rows |-> Tail(raw)]

\* ------------------------------------------------------------------ state
VARIABLES
    fn,                    \* the library function the caller invoked
    source, region,        \* its dataset and geography arguments
    df_variable_list,      \* retrieve_census_data, test_variables: the variables
    year_list,             \* compare_variable_across_years: the years
    variable_filter,       \* generate_variable_and_group_lists: the label filter
    year,                  \* the year argument, or the year of the current iteration
    pc,                    \* "loop" while the function runs, then "done" or "error"
    err,                   \* the exception that reached the caller
    start_point, i,        \* the loop variables
    extra_columns, df_region_data, df_data_across_years,
    requests,              \* every URL handed to read_json / read_html, in order
    responses,             \* every JSON array the API answered, in order
    printed,               \* the failure messages printed by test_variables
    result                 \* the value returned to the caller

vars == <<fn, source, region, df_variable_list, year_list, variable_filter, year,
          pc, err, start_point, i, extra_columns,
          df_region_data, df_data_across_years, requests, responses, printed, result>>

inputs == <<fn, source, region, df_variable_list, year_list, variable_filter>>

locals == <<start_point, i, extra_columns, df_region_data, df_data_across_years>>

\* The locals of a call that has just been entered.
Entered ==
    /\ pc = "loop"
    /\ err = "none"
    /\ start_point = 0
    /\ i = 0
    /\ extra_columns = <<>>
    /\ df_region_data = NoFrame
    /\ df_data_across_years = NoFrame
    /\ requests = <<>>
    /\ responses = <<>>
    /\ printed = <<>>
    /\ result = NoFrame

\* A raised exception leaves the function: nothing is returned.
Raise(e) == /\ pc' = "error"
            /\ err' = e

\* ----------------------------------------------- retrieve_census_data
\* The capture without the `if start_point == 0` test.
CaptureAndDrop_always(st, col, first) ==
    IF HasCol(st.df, col)
    THEN [df |-> Drop(st.df, col),
          extra |-> (col[1] :> Project(st.df, <<NAME, col>>)) @@ st.extra]
    ELSE st

\* The drop indented under the `if start_point == 0` test.
CaptureAndDrop_dropOnlyFirst(st, col, first) ==
    IF HasCol(st.df, col) /\ first
    THEN [df |-> Drop(st.df, col),
          extra |-> (col[1] :> Project(st.df, <<NAME, col>>)) @@ st.extra]
    ELSE st

\* if col in batch_request.columns:
\*     if start_point == 0: extra_columns[col] = batch_request[['NAME', col]]
\*     batch_request.drop(col, axis = 1, inplace = True)
\* on the pair [df, extra].
CaptureAndDrop(st, col, first) ==
    IF HasCol(st.df, col)
    THEN [df |-> Drop(st.df, col),
          extra |-> IF first
                    THEN (col[1] :> Project(st.df, <<NAME, col>>)) @@ st.extra
                    ELSE st.extra]
    ELSE st

\* The zip column left in the response.
DropIfPresent_keep(st, col) == st

DropIfPresent(st, col) ==
    IF HasCol(st.df, col) THEN [st EXCEPT !.df = Drop(st.df, col)] ELSE st

NormalizeBatch(batch_request, first, extra) ==
    DropIfPresent(
        CaptureAndDrop(
            CaptureAndDrop([df |-> batch_request, extra |-> extra], StateCol, first),
            CountyCol, first),
        ZctaCol)

EndPoint(start, n) == Min(start + BatchSize, n)

\* The loop over range(start_point, end_point) stopping one row early.
VariableString_dropLast(list, start, end) ==
    [k \in 1..(end - start - 1) |-> list[start + k].Variable]

\* variable_string: the codes of rows start .. end - 1 of the list
VariableString(list, start, end) ==
    [k \in 1..(end - start) |-> list[start + k].Variable]

RetrieveInit(counts, orders, pairs) ==
    /\ fn = "retrieve_census_data"
    /\ \E p \in pairs : source = p[1] /\ region = p[2]
    /\ year = 2019
    /\ \E n \in counts, d \in orders : df_variable_list = VariableList(n, d)
    /\ year_list = <<>>
    /\ variable_filter = <<>>
    /\ Entered

InBatchLoop ==
    /\ fn = "retrieve_census_data"
    /\ pc = "loop"
    /\ start_point < Len(df_variable_list)

BatchGet ==
    <<NAME>> \o VariableString(df_variable_list, start_point,
                               EndPoint(start_point, Len(df_variable_list)))

\* Building request_string reads source_string and region_string.
BatchRequestUnbound ==
    /\ InBatchLoop
    /\ SourceString(source) = UNBOUND \/ RegionString(region) = UNBOUND
    /\ Raise(IF SourceString(source) = UNBOUND
             THEN "UnboundLocalError: source_string"
             ELSE "UnboundLocalError: region_string")
    /\ UNCHANGED <<inputs, year, locals, requests, responses, printed, result>>

\* The read wrapped in a try statement whose handler goes on to the next batch.
BatchFetchFails_swallow ==
    /\ InBatchLoop
    /\ SourceString(source) # UNBOUND /\ RegionString(region) # UNBOUND
    /\ requests' = Append(requests, [year |-> year, get |-> BatchGet])
    /\ start_point' = start_point + BatchSize
    /\ UNCHANGED <<inputs, year, pc, err, i, extra_columns, df_region_data,
                   df_data_across_years, responses, printed, result>>

\* pd.read_json(request_string) raises.
BatchFetchFails ==
    /\ InBatchLoop
    /\ SourceString(source) # UNBOUND /\ RegionString(region) # UNBOUND
    /\ requests' = Append(requests, [year |-> year, get |-> BatchGet])
    /\ Raise("read_json")
    /\ UNCHANGED <<inputs, year, locals, responses, printed, result>>

\* One iteration of the batch loop with a response.
FetchBatch(listed, permuted, variant, extras) ==
    /\ InBatchLoop
    /\ SourceString(source) # UNBOUND /\ RegionString(region) # UNBOUND
    /\ LET raw == ApiResponse(BatchGet, year, region, listed, permuted, variant, extras)
           st == NormalizeBatch(PromoteHeader(raw), start_point = 0, extra_columns)
       IN  /\ requests' = Append(requests, [year |-> year, get |-> BatchGet])
           /\ responses' = Append(responses, raw)
           /\ extra_columns' = st.extra
           /\ df_region_data' = IF start_point = 0 THEN st.df
                                ELSE MergeOuter(df_region_data, st.df)
    /\ start_point' = start_point + BatchSize
    /\ UNCHANGED <<inputs, year, pc, err, i, df_data_across_years, printed, result>>

Descriptions(list) == <<NAME>> \o [k \in 1..Len(list) |-> list[k].Description]

\* The merge without the insert that follows it: the column stays last.
Reattach_appended(df, extra, col, loc) ==
    IF col[1] \in DOMAIN extra
    THEN MergeOuter(df, extra[col[1]])
    ELSE df

\* if col in extra_columns.keys():
\*     df = df.merge(extra_columns[col], on = 'NAME', how = 'outer')
\*     df.insert(loc, col, df.pop(col))
Reattach(df, extra, col, loc) ==
    IF col[1] \in DOMAIN extra
    THEN MoveCol(MergeOuter(df, extra[col[1]]), loc, col)
    ELSE df

YearColumn(df, yr) == [k \in 1..Len(df.rows) |-> [t |-> "num", v |-> yr]]

\* Lines 224-255: rename, Year, reattach county then state, zip names.
RetrieveTable(df, list, yr, extra, reg) ==
    LET renamed == SetColumns(df, Descriptions(list))
        withYear == InsertCol(renamed, 1, YearCol, YearColumn(renamed, yr))
        withCounty == Reattach(withYear, extra, CountyCol, 2)
        withState == Reattach(withCounty, extra, StateCol, 2)
    IN  IF reg = "zip" THEN ZipNormalize(withState) ELSE withState

\* The statements after the loop, up to the return.
RetrieveFinish ==
    /\ fn = "retrieve_census_data"
    /\ pc = "loop"
    /\ start_point >= Len(df_variable_list)
    /\ IF ~IsBound(df_region_data)
       THEN Raise("UnboundLocalError: df_region_data") /\ UNCHANGED result
       ELSE IF ~CanSetColumns(df_region_data, Descriptions(df_variable_list))
       THEN Raise("ValueError: length mismatch") /\ UNCHANGED result
       ELSE LET t == RetrieveTable(df_region_data, df_variable_list, year,
                                   extra_columns, region)
            IN  IF ~CanToNumericFrom1(t)
                THEN Raise("ValueError: to_numeric") /\ UNCHANGED result
                ELSE /\ result' = ToNumericFrom1(t)
                     /\ pc' = "done"
                     /\ UNCHANGED err
    /\ UNCHANGED <<inputs, year, locals, requests, responses, printed>>

\* ------------------------------------- compare_variable_across_years
\* The variable code every single-variable request of the model asks for.
Variable == <<"code", 1>>

\* str(variable_name) + '_' + str(year)
ValCol(yr) == <<"val", yr>>

\* Year lists: consecutive years, ascending or descending.
YearLists ==
    {[k \in 1..n |-> FirstYear + k - 1] : n \in 0..MaxYears}
        \cup {[k \in 1..n |-> FirstYear + n - k] : n \in 0..MaxYears}

\* df.rename(columns = {old: new})
Rename(df, old, new) ==
    [df EXCEPT !.columns = [j \in 1..Len(df.columns) |->
        IF df.columns[j] = old THEN new ELSE df.columns[j]]]

\* df[c] = cells: replaces the column when the label exists, appends it otherwise.
AssignCol(df, c, cells) ==
    IF HasCol(df, c)
    THEN LET p == IndexOf(df.columns, c)
         IN  [df EXCEPT !.rows = [k \in 1..Len(df.rows) |->
                                    [df.rows[k] EXCEPT ![p] = cells[k]]]]
    ELSE [columns |-> Append(df.columns, c),
          rows |-> [k \in 1..Len(df.rows) |-> Append(df.rows[k], cells[k])]]

\* The slice [-1:-4:-1]: one character short.
Last4_three(label) == label[2] % 1000

\* label[-1:-5:-1][::-1]: the last four characters of the label, which for
\* variable_name + '_' + str(year) are the last four digits of the year.
Last4(label) == label[2] % 10000

ChgCol(a, b) == <<"chg", Last4(a), Last4(b)>>

\* (later / earlier) - 1 as the exact fraction (later - earlier) / earlier;
\* NaN when either operand is NaN.
PctChange(later, earlier) ==
    IF later.t = "na" \/ earlier.t = "na" THEN NA
    ELSE [t |-> "float", v |-> <<later.v - earlier.v, earlier.v>>]

\* One pass of `for i in range(2, data_column_count + 1)`; j is the 0-based
\* position i of the source.
RECURSIVE AdjacentChanges(_, _, _)
AdjacentChanges(df, j, data_column_count) ==
    IF j > data_column_count THEN df
    ELSE AdjacentChanges(
            AssignCol(df, ChgCol(df.columns[j], df.columns[j + 1]),
                      [k \in 1..Len(df.rows) |->
                          PctChange(df.rows[k][j + 1], df.rows[k][j])]),
            j + 1, data_column_count)

\* The test on the number of data columns instead of the number of columns.
FirstToLast_fourYears(df, data_column_count) ==
    IF data_column_count > 3
    THEN AssignCol(df, ChgCol(df.columns[2], df.columns[data_column_count + 1]),
                   [k \in 1..Len(df.rows) |->
                       PctChange(df.rows[k][data_column_count + 1], df.rows[k][2])])
    ELSE df

\* if len(df.columns) > 3: the change from the first data column to the last
FirstToLast(df, data_column_count) ==
    IF Len(df.columns) > 3
    THEN AssignCol(df, ChgCol(df.columns[2], df.columns[data_column_count + 1]),
                   [k \in 1..Len(df.rows) |->
                       PctChange(df.rows[k][data_column_count + 1], df.rows[k][2])])
    ELSE df

\* Lines 464-510.
WithChanges(df) ==
    LET data_column_count == Len(df.columns) - 1
    IN  IF data_column_count > 1
        THEN FirstToLast(AdjacentChanges(df, 2, data_column_count), data_column_count)
        ELSE df

\* Lines 432-445: state, then the zip column, then county.
NormalizeYear(df_year, first, extra) ==
    CaptureAndDrop(
        DropIfPresent(
            CaptureAndDrop([df |-> df_year, extra |-> extra], StateCol, first),
            ZctaCol),
        CountyCol, first)

\* Lines 464-526.
CompareTable(df, extra, reg) ==
    LET withCounty == Reattach(WithChanges(df), extra, CountyCol, 1)
        withState == Reattach(withCounty, extra, StateCol, 1)
    IN  IF reg = "zip" THEN ZipNormalize(withState) ELSE withState

CompareInit(lists, pairs) ==
    /\ fn = "compare_variable_across_years"
    /\ \E p \in pairs : source = p[1] /\ region = p[2]
    /\ year = 0
    /\ df_variable_list = <<>>
    /\ year_list \in lists
    /\ variable_filter = <<>>
    /\ Entered

InYearLoop ==
    /\ fn = "compare_variable_across_years"
    /\ pc = "loop"
    /\ i < Len(year_list)

YearGet == <<NAME, Variable>>

YearRequestUnbound ==
    /\ InYearLoop
    /\ SourceString(source) = UNBOUND \/ RegionString(region) = UNBOUND
    /\ Raise(IF SourceString(source) = UNBOUND
             THEN "UnboundLocalError: source_string"
             ELSE "UnboundLocalError: region_string")
    /\ year' = year_list[i + 1]
    /\ UNCHANGED <<inputs, locals, requests, responses, printed, result>>

YearFetchFails ==
    /\ InYearLoop
    /\ SourceString(source) # UNBOUND /\ RegionString(region) # UNBOUND
    /\ year' = year_list[i + 1]
    /\ requests' = Append(requests, [year |-> year_list[i + 1], get |-> YearGet])
    /\ Raise("read_json")
    /\ UNCHANGED <<inputs, locals, responses, printed, result>>

\* One iteration of the year loop with a response.
FetchYear(listed, variant, extras) ==
    /\ InYearLoop
    /\ SourceString(source) # UNBOUND /\ RegionString(region) # UNBOUND
    /\ LET yr == year_list[i + 1]
           raw == ApiResponse(YearGet, yr, region, listed, FALSE, variant, extras)
           df_year == Rename(PromoteHeader(raw), Variable, ValCol(yr))
           st == NormalizeYear(df_year, i = 0, extra_columns)
       IN  /\ year' = yr
           /\ requests' = Append(requests, [year |-> yr, get |-> YearGet])
           /\ responses' = Append(responses, raw)
           /\ extra_columns' = st.extra
           /\ df_data_across_years' = IF i = 0 THEN st.df
                                      ELSE MergeOuter(df_data_across_years, st.df)
    /\ i' = i + 1
    /\ UNCHANGED <<inputs, pc, err, start_point, df_region_data, printed, result>>

\* The statements after the loop, up to the return.
CompareFinish ==
    /\ fn = "compare_variable_across_years"
    /\ pc = "loop"
    /\ i >= Len(year_list)
    /\ IF ~IsBound(df_data_across_years)
       THEN Raise("UnboundLocalError: df_data_across_years") /\ UNCHANGED result
       ELSE IF ~CanToNumericFrom1(df_data_across_years)
       THEN Raise("ValueError: to_numeric") /\ UNCHANGED result
       ELSE /\ result' = CompareTable(ToNumericFrom1(df_data_across_years),
                                      extra_columns, region)
            /\ pc' = "done"
            /\ UNCHANGED err
    /\ UNCHANGED <<inputs, year, locals, requests, responses, printed>>

\* ----------------------------------- retrieve_single_census_variable
SingleInit(pairs) ==
    /\ fn = "retrieve_single_census_variable"
    /\ \E p \in pairs : source = p[1] /\ region = p[2]
    /\ year = 2019
    /\ df_variable_list = <<>>
    /\ year_list = <<>>
    /\ variable_filter = <<>>
    /\ Entered

InSingle == fn = "retrieve_single_census_variable" /\ pc = "loop"

\* request_string is assigned inside the `if region == ...` statements, each
\* of which reads source_string; read_json then reads request_string.
SingleRequestUnbound ==
    /\ InSingle
    /\ SourceString(source) = UNBOUND \/ RegionString(region) = UNBOUND
    /\ Raise(IF RegionString(region) = UNBOUND
             THEN "UnboundLocalError: request_string"
             ELSE "UnboundLocalError: source_string")
    /\ UNCHANGED <<inputs, year, locals, requests, responses, printed, result>>

SingleFetchFails ==
    /\ InSingle
    /\ SourceString(source) # UNBOUND /\ RegionString(region) # UNBOUND
    /\ requests' = Append(requests, [year |-> year, get |-> <<NAME, Variable>>])
    /\ Raise("read_json")
    /\ UNCHANGED <<inputs, year, locals, responses, printed, result>>

\* Lines 314-327.
SingleTable(raw, yr, reg) ==
    LET result_col == ValCol(yr)
        renamed == Rename(PromoteHeader(raw), Variable, result_col)
        p == IndexOf(renamed.columns, result_col)
        numeric == AssignCol(renamed, result_col,
                       [k \in 1..Len(renamed.rows) |-> ToNumericCell(renamed.rows[k][p])])
        named == IF reg = "zip" THEN ZipNormalize(numeric) ELSE numeric
    IN  Project(named, <<NAME, result_col>>)

SingleFetch(listed, variant, extras) ==
    /\ InSingle
    /\ SourceString(source) # UNBOUND /\ RegionString(region) # UNBOUND
    /\ LET raw == ApiResponse(<<NAME, Variable>>, year, region, listed, FALSE,
                              variant, extras)
       IN  /\ requests' = Append(requests, [year |-> year, get |-> <<NAME, Variable>>])
           /\ responses' = Append(responses, raw)
           /\ result' = SingleTable(raw, year, region)
    /\ pc' = "done"
    /\ UNCHANGED <<inputs, year, err, locals, printed>>

\* ------------------------------------------------------ test_variables
None == [none |-> TRUE]

\* df_variable_list is here a plain list of variable codes.
CodeList(n) == [k \in 1..n |-> <<"code", k>>]

TestInit(counts, pairs) ==
    /\ fn = "test_variables"
    /\ \E p \in pairs : source = p[1] /\ region = p[2]
    /\ year = 2019
    /\ \E n \in counts : df_variable_list = CodeList(n)
    /\ year_list = <<>>
    /\ variable_filter = <<>>
    /\ Entered

InTestLoop ==
    /\ fn = "test_variables"
    /\ pc = "loop"
    /\ i < Len(df_variable_list)

\* request_string is built outside the try statement.
TestRequestUnbound ==
    /\ InTestLoop
    /\ SourceString(source) = UNBOUND \/ RegionString(region) = UNBOUND
    /\ Raise(IF SourceString(source) = UNBOUND
             THEN "UnboundLocalError: source_string"
             ELSE "UnboundLocalError: region_string")
    /\ UNCHANGED <<inputs, year, locals, requests, responses, printed, result>>

\* try: pd.read_json(request_string)   except: print("Failed to retrieve ...")
\* The response of a request that succeeds is read and discarded.
TestVariable(fails, extras) ==
    /\ InTestLoop
    /\ SourceString(source) # UNBOUND /\ RegionString(region) # UNBOUND
    /\ LET get == <<NAME, df_variable_list[i + 1]>>
       IN  /\ requests' = Append(requests, [year |-> year, get |-> get])
           /\ responses' = IF fails THEN responses
                            ELSE Append(responses,
                                    ApiResponse(get, year, region, RegionIds, FALSE, 0, extras))
    /\ printed' = IF fails THEN Append(printed, df_variable_list[i + 1]) ELSE printed
    /\ i' = i + 1
    /\ UNCHANGED <<inputs, year, pc, err, start_point, extra_columns, df_region_data,
                   df_data_across_years, result>>

\* The loop is over: the function returns None.
TestFinish ==
    /\ fn = "test_variables"
    /\ pc = "loop"
    /\ i >= Len(df_variable_list)
    /\ result' = None
    /\ pc' = "done"
    /\ UNCHANGED <<inputs, year, err, locals, requests, responses, printed>>

\* ---------------------------------- generate_variable_and_group_lists
Text(tokens) == [t |-> "text", v |-> tokens]

NameCol == <<"Name">>
VariableCol == <<"Variable">>
LabelCol == <<"Label">>
ConceptCol == <<"Concept">>
GroupCol == <<"Group">>
DescriptionCol == <<"Description">>
RequiredCol == <<"Required">>

\* Rows a variables.html table can hold; the last one is not a data variable.
CatalogRows ==
    { <<Text(<<1>>), Text(<<"Estimate", "Total">>), Text(<<"SEX BY AGE">>),
        Text(<<"B01001">>), Text(<<"not required">>)>>,
      <<Text(<<2>>), Text(<<"Estimate", "Total", "Male">>), Text(<<"SEX BY AGE">>),
        Text(<<"B01001">>), Text(<<"not required">>)>>,
      <<Text(<<3>>), Text(<<"Estimate", "Median age">>), Text(<<"MEDIAN AGE">>),
        Text(<<"B01002">>), Text(<<"not required">>)>>,
      <<Text(<<0>>), Text(<<"Geography">>), Text(<<"">>),
        Text(<<"N/A">>), Text(<<"not required">>)>> }

\* The tables read_html may deliver: up to n of these rows, in any order.
CatalogPages(n) ==
    {[columns |-> <<NameCol, LabelCol, ConceptCol, GroupCol, RequiredCol>>, rows |-> rs] :
        rs \in {q \in UNION {[1..m -> CatalogRows] : m \in 0..n} :
                    \A a, b \in 1..Len(q) : a # b => q[a] # q[b]}}

\* str.contains(pattern) for a literal pattern: the pattern occurs in the text.
Contains(text, pattern) ==
    \E a \in 0..(Len(text) - Len(pattern)) :
        SubSeq(text, a + 1, a + Len(pattern)) = pattern

\* df.loc[df['Label'].str.contains(variable_filter)]
FilterLabel(df, pattern) ==
    LET p == IndexOf(df.columns, LabelCol)
    IN  [df EXCEPT !.rows = SelectSeq(df.rows, LAMBDA row : Contains(row[p].v, pattern))]

\* df.sort_values(c) for a column of distinct codes
RECURSIVE SortRowsBy(_, _)
SortRowsBy(rows, p) ==
    IF rows = <<>> THEN <<>>
    ELSE LET m == CHOOSE a \in 1..Len(rows) :
                    \A b \in 1..Len(rows) : rows[a][p].v[1] <= rows[b][p].v[1]
         IN  <<rows[m]>> \o SortRowsBy(RemoveAt(rows, m), p)

SortValues(df, c) ==
    [df EXCEPT !.rows = SortRowsBy(df.rows, IndexOf(df.columns, c))]

\* df.drop_duplicates(): the first occurrence of every row is kept.
DropDuplicates(df) ==
    [df EXCEPT !.rows =
        LET keep == {a \in 1..Len(df.rows) : \A b \in 1..(a - 1) : df.rows[b] # df.rows[a]}
            idx == Ascending(keep)
        IN  [k \in 1..Len(idx) |-> df.rows[idx[k]]]]

\* Lines 53-77.
VariableTable(page, pattern) ==
    LET kept == Project(FilterLabel(page, pattern),
                        <<NameCol, LabelCol, ConceptCol, GroupCol>>)
        named == Rename(kept, NameCol, VariableCol)
        described == AssignCol(named, DescriptionCol,
                        [k \in 1..Len(named.rows) |->
                            Text(named.rows[k][3].v \o <<" ">> \o named.rows[k][2].v)])
    IN  SortValues(described, VariableCol)

GroupTable(df_variables) == DropDuplicates(Project(df_variables, <<ConceptCol, GroupCol>>))

GenerateInit(srcs, filters) ==
    /\ fn = "generate_variable_and_group_lists"
    /\ source \in srcs
    /\ region = "state"
    /\ year = 2019
    /\ df_variable_list = <<>>
    /\ year_list = <<>>
    /\ variable_filter \in filters
    /\ Entered

InGenerate == fn = "generate_variable_and_group_lists" /\ pc = "loop"

GenerateRequestUnbound ==
    /\ InGenerate
    /\ SourceString(source) = UNBOUND
    /\ Raise("UnboundLocalError: source_string")
    /\ UNCHANGED <<inputs, year, locals, requests, responses, printed, result>>

\* The read wrapped in a try statement whose handler returns empty tables.
GenerateFetchFails_placeholder ==
    /\ InGenerate
    /\ SourceString(source) # UNBOUND
    /\ requests' = Append(requests, [year |-> year, get |-> <<<<"variables.html">>>>])
    /\ result' = <<[columns |-> <<>>, rows |-> <<>>], [columns |-> <<>>, rows |-> <<>>]>>
    /\ pc' = "done"
    /\ UNCHANGED <<inputs, year, err, locals, responses, printed>>

\* pd.read_html(request_string)[0] raises.
GenerateFetchFails ==
    /\ InGenerate
    /\ SourceString(source) # UNBOUND
    /\ requests' = Append(requests, [year |-> year, get |-> <<<<"variables.html">>>>])
    /\ Raise("read_html")
    /\ UNCHANGED <<inputs, year, locals, responses, printed, result>>

Generate(page) ==
    /\ InGenerate
    /\ SourceString(source) # UNBOUND
    /\ requests' = Append(requests, [year |-> year, get |-> <<<<"variables.html">>>>])
    /\ responses' = Append(responses, page)
    /\ LET df_variables == VariableTable(page, variable_filter)
       IN  result' = <<df_variables, GroupTable(df_variables)>>
    /\ pc' = "done"
    /\ UNCHANGED <<inputs, year, err, locals, printed>>

\* --------------------------------------------------------- specifications
\* The ways one response may deviate from the complete, request-ordered
\* answer: it disagrees on the geography identifiers, it omits one region,
\* or (for a request of several fields) it lists the columns in another
\* order.
YearShapes ==
    {[listed |-> RegionIds, permuted |-> FALSE, variant |-> v] : v \in {0, 1}}
        \cup {[listed |-> RegionIds \ {r}, permuted |-> FALSE, variant |-> 0] :
                    r \in RegionIds}

BatchShapes == YearShapes \cup {[listed |-> RegionIds, permuted |-> TRUE, variant |-> 0]}

\* Field counts around the batch boundaries, up to MaxBatches batches.
FieldCounts ==
    {0, 1, 2} \cup {b * BatchSize + d : b \in 1..(MaxBatches - 1), d \in {0, 1}}

RetrieveNext ==
    \/ BatchRequestUnbound
    \/ BatchFetchFails
    \/ \E shape \in BatchShapes, extras \in ApiExtras(region) :
            FetchBatch(shape.listed, shape.permuted, shape.variant, extras)
    \/ RetrieveFinish

CompareNext ==
    \/ YearRequestUnbound
    \/ YearFetchFails
    \/ \E shape \in YearShapes, extras \in ApiExtras(region) :
            FetchYear(shape.listed, shape.variant, extras)
    \/ CompareFinish

SingleNext ==
    \/ SingleRequestUnbound
    \/ SingleFetchFails
    \/ \E shape \in YearShapes, extras \in ApiExtras(region) :
            SingleFetch(shape.listed, shape.variant, extras)

TestNext ==
    \/ TestRequestUnbound
    \/ \E fails \in BOOLEAN, extras \in ApiExtras(region) : TestVariable(fails, extras)
    \/ TestFinish

GenerateNext ==
    \/ GenerateRequestUnbound
    \/ GenerateFetchFails
    \/ \E page \in CatalogPages(MaxCatalog) : Generate(page)

Init ==
    \/ RetrieveInit(FieldCounts, {FALSE}, InputPairs)
    \/ CompareInit(YearLists, InputPairs)
    \/ SingleInit(InputPairs)
    \/ TestInit(0..MaxTested, InputPairs)
    \/ GenerateInit(Sources, {<<>>, <<"Estimate">>})

Next == RetrieveNext \/ CompareNext \/ SingleNext \/ TestNext \/ GenerateNext

Spec == Init /\ [][Next]_vars

\* The batch loop over every field count up to MaxFields, both catalogue
\* orders, with an API that lists every region and keeps the request's
\* column order.
InitBatches == RetrieveInit(0..MaxFields, BOOLEAN, InputPairs)

NextBatches ==
    \/ BatchRequestUnbound
    \/ BatchFetchFails
    \/ \E extras \in ApiExtras(region) : FetchBatch(RegionIds, FALSE, 0, extras)
    \/ RetrieveFinish

SpecBatches == InitBatches /\ [][NextBatches]_vars

\* ------------------------------------------------------------ properties
Retrieving == fn = "retrieve_census_data"
Comparing == fn = "compare_variable_across_years"
Returned == pc = "done"

\* A request the API did not answer: the read of its URL raised.
Failed == Len(requests) > Len(responses)

Codes(list) == [k \in 1..Len(list) |-> list[k].Variable]

\* The field codes of the k-th request, without the leading NAME.
BatchFields(k) == Tail(requests[k].get)

CeilDiv(a, b) == (a + b - 1) \div b

Count(seq, x) == Cardinality({j \in 1..Len(seq) : seq[j] = x})

\* C1: the batch loop of retrieve_census_data splits a field list of length
\* L into ceil(L / 45) batches; the k-th batch is the contiguous slice that
\* starts at offset 45 * (k - 1) and holds at most 45 codes, so the batches
\* do not overlap, and the batches concatenated in request order are the
\* original list.
C1_BatchesPartitionTheList ==
    Retrieving =>
        LET codes == Codes(df_variable_list)
            L == Len(codes)
        IN  /\ \A k \in 1..Len(requests) :
                /\ Len(BatchFields(k)) \in 1..45
                /\ BatchFields(k) = SubSeq(codes, 45 * (k - 1) + 1,
                                           45 * (k - 1) + Len(BatchFields(k)))
            /\ start_point >= L =>
                /\ Len(requests) = CeilDiv(L, 45)
                /\ Concat([k \in 1..Len(requests) |-> BatchFields(k)]) = codes

\* Three batches were requested, the last one shorter than 45, and the
\* table was returned.
C1_Witness ==
    /\ Retrieving
    /\ Returned
    /\ Len(requests) = 3
    /\ Len(BatchFields(3)) < 45

\* The region names a raw response lists.
ListedNames(raw) == {raw[j][1] : j \in 2..Len(raw)}

ObservedNames == UNION {ListedNames(responses[k]) : k \in 1..Len(responses)}

NoRepeatedName(raw) == \A a, b \in 2..Len(raw) : raw[a][1] = raw[b][1] => a = b

\* The name under which the returned table lists a region of the responses.
ReturnedName(name) == IF region = "zip" THEN ZipName(name) ELSE name

ResultNames == {result.rows[k][1] : k \in 1..Len(result.rows)}

\* C2: when every batch response lists each region name at most once, the
\* table retrieve_census_data returns has exactly one row for each region
\* name observed in any batch.
C2_OneRowPerObservedRegion ==
    (/\ Retrieving
     /\ Returned
     /\ \A k \in 1..Len(responses) : NoRepeatedName(responses[k])) =>
        /\ Len(result.rows) = Cardinality(ObservedNames)
        /\ ResultNames = {ReturnedName(n) : n \in ObservedNames}

\* Two batches that each list a region the other omits, with captured state
\* and county columns reattached.
C2_Witness ==
    /\ Retrieving
    /\ Returned
    /\ region = "county"
    /\ Len(responses) = 2
    /\ ListedNames(responses[1]) \ ListedNames(responses[2]) # {}
    /\ ListedNames(responses[2]) \ ListedNames(responses[1]) # {}
    /\ Len(result.rows) = 2

\* C3: when the request of a batch of retrieve_census_data or of a year of
\* compare_variable_across_years fails, the error reaches the caller, no
\* table is returned, the failed request is the last one issued (it is not
\* repeated and no later batch or year is requested).
C3_FailedRequestAborts ==
    /\ []((/\ Retrieving \/ Comparing
           /\ Failed) =>
            /\ pc = "error"
            /\ err = "read_json"
            /\ ~IsBound(result)
            /\ Len(requests) = Len(responses) + 1)
    /\ [][((Retrieving \/ Comparing) /\ Failed) =>
            (requests' = requests /\ pc' = "error" /\ result' = result)]_vars

\* The second batch failed after the first one had been merged.
C3_Witness ==
    /\ Retrieving
    /\ Failed
    /\ Len(responses) = 1
    /\ IsBound(df_region_data)
    /\ pc = "error"

\* The call names a dataset or a geography the function does not know.
Unsupported ==
    \/ SourceString(source) = UNBOUND
    \/ fn # "generate_variable_and_group_lists" /\ RegionString(region) = UNBOUND

\* C4: with a dataset identifier or a geography kind outside the supported
\* values every entry point fails, whatever the other inputs (an empty field
\* or year list included): it never returns normally and issues no request.
C4_UnsupportedAlwaysRejected ==
    Unsupported => (pc # "done" /\ requests = <<>>)

\* The cell of a raw response for a region name under a column label.
RawCell(raw, name, col) ==
    LET j == CHOOSE j \in 2..Len(raw) : raw[j][1] = name
    IN  raw[j][IndexOf(raw[1], col)]

\* What the returned table must hold under a geography column for a region
\* name of the responses: the first batch's value, NaN when the first batch
\* does not list the region.
FirstBatchValue(name, col) ==
    IF name \in ListedNames(responses[1])
    THEN ToNumericCell(RawCell(responses[1], name, col))
    ELSE NA

ResultCell(k, col) == result.rows[k][IndexOf(result.columns, col)]

\* C5: for a county request the returned table has exactly one state and
\* one county column, and each of their values is the value the first
\* batch's response gives for the row's region (NaN for a region the first
\* batch does not list); the values of later batches never reach the table.
C5_GeographyFromFirstBatch ==
    (Retrieving /\ region = "county" /\ Returned) =>
        /\ Count(result.columns, StateCol) = 1
        /\ Count(result.columns, CountyCol) = 1
        /\ \A k \in 1..Len(result.rows) : \A n \in ObservedNames :
              ReturnedName(n) = result.rows[k][1] =>
                /\ ResultCell(k, StateCol) = FirstBatchValue(n, StateCol)
                /\ ResultCell(k, CountyCol) = FirstBatchValue(n, CountyCol)

\* A county table of two batches whose second response disagrees with the
\* first on the identifiers of a region both list.
C5_Witness ==
    /\ Retrieving
    /\ region = "county"
    /\ Returned
    /\ Len(responses) = 2
    /\ \E n \in ListedNames(responses[1]) \cap ListedNames(responses[2]) :
          RawCell(responses[1], n, StateCol) # RawCell(responses[2], n, StateCol)

FrameLacks(df, col) == IsBound(df) => ~HasCol(df, col)

\* C6: in retrieve_census_data and compare_variable_across_years the
\* 'zip code tabulation area' column is dropped from every response before
\* the merge and never captured, so neither the accumulated table, nor the
\* captured extra columns, nor the returned table holds it.
C6_NoZctaColumn ==
    (Retrieving \/ Comparing) =>
        /\ "zip code tabulation area" \notin DOMAIN extra_columns
        /\ \A key \in DOMAIN extra_columns : ~HasCol(extra_columns[key], ZctaCol)
        /\ FrameLacks(df_region_data, ZctaCol)
        /\ FrameLacks(df_data_across_years, ZctaCol)
        /\ Returned => ~HasCol(result, ZctaCol)

\* A returned table built from two responses of which only the second
\* carried the zip column.
C6_Witness ==
    /\ Retrieving \/ Comparing
    /\ Returned
    /\ Len(responses) = 2
    /\ ZctaCol \notin Range(responses[1][1])
    /\ ZctaCol \in Range(responses[2][1])

ChgColumns(df) == {j \in 1..Len(df.columns) : df.columns[j][1] = "chg"}

\* The labels of the adjacent-pair columns and of the first-to-last column
\* of the year list.
AdjacentLabels ==
    {<<"chg", year_list[k] % 10000, year_list[k + 1] % 10000>> :
        k \in 1..(Len(year_list) - 1)}

FirstToLastLabel ==
    <<"chg", year_list[1] % 10000, year_list[Len(year_list)] % 10000>>

\* C7: the table compare_variable_across_years returns for N distinct years
\* holds a first-to-last change column beside the adjacent-pair columns if
\* and only if N >= 3; with exactly 2 years its only change column is the
\* adjacent-pair column.
C7_FirstToLastIffThreeYears ==
    (Comparing /\ Returned) =>
        LET N == Len(year_list)
            separate == {j \in ChgColumns(result) : result.columns[j] \notin AdjacentLabels}
        IN  /\ (\E j \in separate : result.columns[j] = FirstToLastLabel) <=> N >= 3
            /\ Cardinality(separate) = IF N >= 3 THEN 1 ELSE 0
            /\ N = 2 => /\ Cardinality(ChgColumns(result)) = 1
                        /\ Count(result.columns, FirstToLastLabel) = 1

\* A returned table for three years.
C7_Witness ==
    /\ Comparing
    /\ Returned
    /\ Len(year_list) = 3
    /\ Count(result.columns, FirstToLastLabel) = 1
    /\ Len(result.rows) > 0

\* C8: in the table retrieve_census_data returns, the column that carries
\* the description of the i-th requested field holds the data of the i-th
\* requested field, whatever the order in which the responses list their
\* columns.
C8_DescriptionLabelsItsOwnField ==
    (Retrieving /\ Returned) =>
        \A f \in 1..Len(df_variable_list) : \A k \in 1..Len(result.rows) :
            \A r \in RegionIds :
                ReturnedName(RegionName(region, r)) = result.rows[k][1] =>
                    ResultCell(k, df_variable_list[f].Description)
                        \in {ToNumericCell(ApiValue(df_variable_list[f].Variable, year, r)), NA}

\* C9 as stated: whenever a request fails, in any of the five functions,
\* the error reaches the caller.
C9_EveryFetchErrorPropagates ==
    Failed => pc = "error"

\* C9 amended: a failed request ends retrieve_census_data,
\* compare_variable_across_years, retrieve_single_census_variable and
\* generate_variable_and_group_lists with the error and without a returned
\* value; test_variables alone catches the failure of a request, prints one
\* message for it and goes on, and an error never comes with a returned value.
C9_FetchErrorPropagatesExceptInTestVariables ==
    /\ (fn # "test_variables" /\ Failed) =>
            /\ pc = "error"
            /\ err \in {"read_json", "read_html"}
    /\ fn = "test_variables" => Len(printed) = Len(requests) - Len(responses)
    /\ pc = "error" => ~IsBound(result)

\* The read of the catalogue page failed and the error reached the caller.
C9_Witness ==
    /\ fn = "generate_variable_and_group_lists"
    /\ Failed
    /\ pc = "error"

FiftyFieldsOverState ==
    /\ Retrieving
    /\ region = "state"
    /\ Len(df_variable_list) = 50
    /\ start_point >= 50

FiftyFieldsBatches ==
    /\ Len(requests) = 2
    /\ Len(BatchFields(1)) = 45
    /\ Len(BatchFields(2)) = 5
    /\ Len(df_region_data.columns) = 51
    /\ df_region_data.columns = <<NAME>> \o Codes(df_variable_list)

DescriptionLabels == {df_variable_list[k].Description : k \in 1..Len(df_variable_list)}

\* C10 as stated: 50 fields over 'state' take 2 batches of 45 and 5 fields,
\* the merged table has the 51 columns NAME + 50 fields before the rename,
\* and the returned table consists of the 50 description columns, NAME and
\* Year.
C10_FiftyFieldsNameYearOnly ==
    FiftyFieldsOverState =>
        /\ FiftyFieldsBatches
        /\ Returned => /\ Len(result.columns) = 52
                       /\ Range(result.columns) = DescriptionLabels \cup {NAME, YearCol}

\* C10 amended: as above, but the returned table also holds the state
\* column captured from the first batch: 53 columns, the 50 description
\* columns, NAME, Year and state.
C10_FiftyFieldsWithState ==
    FiftyFieldsOverState =>
        /\ FiftyFieldsBatches
        /\ Returned => /\ Len(result.columns) = 53
                       /\ Range(result.columns)
                              = DescriptionLabels \cup {NAME, YearCol, StateCol}

\* The table for 50 fields over 'state' was returned.
C10_Witness ==
    /\ FiftyFieldsOverState
    /\ Returned
    /\ Len(responses) = 2

ValColumns(df) == {j \in 1..Len(df.columns) : df.columns[j][1] = "val"}

\* The positions of the columns that carry the given label.
Positions(df, label) == {j \in 1..Len(df.columns) : df.columns[j] = label}

\* C11: the table compare_variable_across_years returns for N >= 1 distinct
\* years holds one value column per year and exactly N - 1 adjacent-pair
\* change columns, one for each consecutive pair of the list, in list
\* order, labelled with the last four characters of the two value columns'
\* names; with one year there is no change column, and once every year has
\* been fetched the function returns without an error.
C11_OneChangeColumnPerAdjacentPair ==
    LET N == Len(year_list)
    IN  /\ (Comparing /\ Returned) =>
            /\ Cardinality(ValColumns(result)) = N
            /\ \A k \in 1..N : Count(result.columns, ValCol(year_list[k])) = 1
            /\ \A k \in 1..(N - 1) :
                  Count(result.columns,
                        <<"chg", year_list[k] % 10000, year_list[k + 1] % 10000>>) = 1
            /\ Cardinality({j \in ChgColumns(result) :
                              result.columns[j] \in AdjacentLabels}) = N - 1
            /\ \A a, b \in 1..(N - 1) : a < b =>
                  \A ja \in Positions(result,
                              <<"chg", year_list[a] % 10000, year_list[a + 1] % 10000>>) :
                  \A jb \in Positions(result,
                              <<"chg", year_list[b] % 10000, year_list[b + 1] % 10000>>) :
                      ja < jb
            /\ N = 1 => ChgColumns(result) = {}
        /\ (Comparing /\ N >= 1 /\ i >= N /\ pc # "loop") => Returned

\* A returned table for three years listed latest first.
C11_Witness ==
    /\ Comparing
    /\ Returned
    /\ Len(year_list) = 3
    /\ year_list[1] > year_list[2]
    /\ Cardinality(ChgColumns(result)) = 3

\* The geography columns captured from the first batch.
Captured == {c \in {StateCol, CountyCol} : c[1] \in DOMAIN extra_columns}

RetrievedWithGeography == Retrieving /\ Returned /\ Captured # {}

\* C12 as stated: in the table retrieve_census_data returns, the captured
\* state and county columns stand immediately after the NAME column.
C12_GeographyRightAfterName ==
    RetrievedWithGeography =>
        /\ result.columns[1] = NAME
        /\ \A j \in 2..(1 + Cardinality(Captured)) : result.columns[j] \in Captured

\* C12: in the table retrieve_census_data returns, NAME is first, Year is
\* second, and the captured geography columns follow Year at fixed
\* positions, state before county, each once, ahead of every field column.
C12_GeographyRightAfterYear ==
    RetrievedWithGeography =>
        LET n == Cardinality(Captured)
        IN  /\ result.columns[1] = NAME
            /\ result.columns[2] = YearCol
            /\ \A c \in Captured : Count(result.columns, c) = 1
            /\ \A j \in 3..(2 + n) : result.columns[j] \in Captured
            /\ StateCol \in Captured => result.columns[3] = StateCol
            /\ CountyCol \in Captured => result.columns[2 + n] = CountyCol
            /\ Len(result.columns) = 2 + n + Len(df_variable_list)
            /\ \A j \in (3 + n)..Len(result.columns) :
                  result.columns[j] \in DescriptionLabels

\* A returned county table with both geography columns and some fields.
C12_Witness ==
    /\ RetrievedWithGeography
    /\ Captured = {StateCol, CountyCol}
    /\ Len(df_variable_list) >= 2
    /\ Len(result.columns) > 4

====
